---- MODULE Spec2Model ----
(***************************************************************************)
(* Sensor statistics service with a result cache (src/app.py).             *)
(*                                                                         *)
(* Strings that the code trims and lowercases are tuples of one-character  *)
(* strings, so that strip() and lower() are computed.  Date strings are    *)
(* opaque texts parsed by the table to_datetime.  Time is counted in hours *)
(* from 2024-01-01T00:00; a Timestamp carries its wall-clock reading and,  *)
(* when timezone-aware, its UTC offset.  Optional values are <<>> (None)   *)
(* or <<v>>.  A float is an IEEE 754 double, computed with its rounding.   *)
(***************************************************************************)
EXTENDS Integers, Sequences, FiniteSets, TLC

VARIABLES
    _df,          \* the global DataFrame: None or [tz, rows]
    _cache,       \* the global dict: cache key -> stats_obj
    _cache_lock,  \* threading.Lock: 0 when free, else the thread holding it
    pc,           \* per worker thread: the line of stats() it is about to run
    args,         \* per thread: the request's query parameters
    sd,           \* per thread: local sd
    ed,           \* per thread: local ed
    key,          \* per thread: local key
    stats_obj,    \* per thread: local stats_obj
    issued,       \* number of requests received so far
    solo,         \* history: no other request was in flight during the thread's request
    prev,         \* history: the response that ended just before a solo request
    lastDone,     \* history: the most recently sent response, with the one before a solo request
    answered,     \* history: cache key -> [args, stats] of the finished requests that carried it
    aggDf,        \* aggregation input: a loaded DataFrame
    aggArgs,      \* aggregation input: query parameters
    aggOut        \* aggregation output

vars == <<_df, _cache, _cache_lock, pc, args, sd, ed, key, stats_obj,
          issued, solo, prev, lastDone, answered, aggDf, aggArgs, aggOut>>

mainVars == <<_df, _cache, _cache_lock, pc, args, sd, ed, key, stats_obj,
              issued, solo, prev, lastDone, answered>>

aggVars == <<aggDf, aggArgs, aggOut>>

(***************************************************************************)
(* Bounds                                                                  *)
(***************************************************************************)
NumThreads == 2
MaxRequests == 2
MaxRows == 3

Threads == 1..NumThreads

(***************************************************************************)
(* Optional values                                                         *)
(***************************************************************************)
None == <<>>
Some(v) == <<v>>
IsNone(o) == o = <<>>
Val(o) == o[1]

(***************************************************************************)
(* str.strip() and str.lower()                                             *)
(***************************************************************************)
IsSpace(c) == c = " "

LowerChar(c) ==
    CASE c = "A" -> "a"
      [] c = "B" -> "b"
      [] c = "T" -> "t"
      [] OTHER -> c

RECURSIVE lstrip(_)
lstrip(s) == IF s # <<>> /\ IsSpace(Head(s)) THEN lstrip(Tail(s)) ELSE s

RECURSIVE rstrip(_)
rstrip(s) ==
    IF s # <<>> /\ IsSpace(s[Len(s)]) THEN rstrip(SubSeq(s, 1, Len(s) - 1)) ELSE s

strip(s) == rstrip(lstrip(s))

lower(s) == [i \in 1..Len(s) |-> LowerChar(s[i])]

(***************************************************************************)
(* pandas Timestamp, pd.to_datetime and Timestamp.isoformat                *)
(***************************************************************************)
NaT == [nat |-> TRUE, wall |-> 0, tz |-> None]
Naive(w) == [nat |-> FALSE, wall |-> w, tz |-> None]
Aware(w, off) == [nat |-> FALSE, wall |-> w, tz |-> Some(off)]

\* pd.to_datetime on one string: [ok, ts]; ok = FALSE when it raises.
to_datetime(s) ==
    CASE s = "2024-01-01"                -> [ok |-> TRUE, ts |-> Naive(0)]
      [] s = "2024-01-01 00:00:00"       -> [ok |-> TRUE, ts |-> Naive(0)]
      [] s = "2024-01-01T01:00:00"       -> [ok |-> TRUE, ts |-> Naive(1)]
      [] s = "2024-01-01 01:00"          -> [ok |-> TRUE, ts |-> Naive(1)]
      [] s = "2024-01-01T02:00:00"       -> [ok |-> TRUE, ts |-> Naive(2)]
      [] s = "2024-01-01T00:00:00Z"      -> [ok |-> TRUE, ts |-> Aware(0, 0)]
      [] s = "2024-01-01T01:00:00Z"      -> [ok |-> TRUE, ts |-> Aware(1, 0)]
      [] s = "2024-01-01T02:00:00+01:00" -> [ok |-> TRUE, ts |-> Aware(2, 1)]
      [] s = "2024-01-01T02:00:00Z"      -> [ok |-> TRUE, ts |-> Aware(2, 0)]
      [] s = ""                          -> [ok |-> TRUE, ts |-> NaT]
      [] OTHER                           -> [ok |-> FALSE, ts |-> NaT]

\* Timestamp.isoformat(): the wall-clock reading, then the offset when aware.
isoformat(ts) ==
    IF ts.nat THEN <<"NaT">>
    ELSE IF IsNone(ts.tz) THEN <<"T", ts.wall>>
    ELSE <<"T", ts.wall, Val(ts.tz)>>

\* The instant a timezone-aware Timestamp denotes, in UTC.
utc(ts) == ts.wall - Val(ts.tz)

\* Variant: a date that does not parse is taken as absent.
_parse_date_lenient(s) ==
    IF IsNone(s) \/ ~to_datetime(Val(s)).ok
    THEN [err |-> FALSE, val |-> None]
    ELSE [err |-> FALSE, val |-> Some(to_datetime(Val(s)).ts)]

\* _parse_date: [err, val]; err = TRUE when it raises ValueError.
_parse_date(s) ==
    IF IsNone(s) THEN [err |-> FALSE, val |-> None]
    ELSE IF to_datetime(Val(s)).ok
         THEN [err |-> FALSE, val |-> Some(to_datetime(Val(s)).ts)]
         ELSE [err |-> TRUE, val |-> None]

(***************************************************************************)
(* _make_cache_key                                                         *)
(***************************************************************************)
\* Variant: the location is left out of the key.
_make_cache_key_no_location(location, sensor, start_date, end_date) ==
    << None,
       IF IsNone(sensor) THEN None ELSE Some(lower(strip(Val(sensor)))),
       IF IsNone(start_date) THEN None ELSE Some(Val(start_date)),
       IF IsNone(end_date) THEN None ELSE Some(Val(end_date)) >>

\* Variant: an absent string field is keyed as the empty string.
_make_cache_key_empty_absent(location, sensor, start_date, end_date) ==
    << IF IsNone(location) THEN Some(<<>>) ELSE Some(lower(strip(Val(location)))),
       IF IsNone(sensor) THEN Some(<<>>) ELSE Some(lower(strip(Val(sensor)))),
       IF IsNone(start_date) THEN None ELSE Some(Val(start_date)),
       IF IsNone(end_date) THEN None ELSE Some(Val(end_date)) >>

_make_cache_key(location, sensor, start_date, end_date) ==
    << IF IsNone(location) THEN None ELSE Some(lower(strip(Val(location)))),
       IF IsNone(sensor) THEN None ELSE Some(lower(strip(Val(sensor)))),
       IF IsNone(start_date) THEN None ELSE Some(Val(start_date)),
       IF IsNone(end_date) THEN None ELSE Some(Val(end_date)) >>

\* The key argument expressions of line 82.
IsoOrNone(d) == IF IsNone(d) THEN None ELSE Some(isoformat(Val(d)))

(***************************************************************************)
(* float64.  A natural number of any size is the sequence of its base      *)
(* 2^15 digits, least significant first, without leading zero digits.  A   *)
(* finite double is [s, m, e]: (-1)^s * m * 2^e with m odd, or zero.       *)
(***************************************************************************)
Base == 32768
DigitBits == 15
MantissaBits == 53

\* The operations are functions, so that an argument is a value, computed
\* once, wherever the body uses it.
Big == Seq(Nat)
Floats == [s : {0, 1}, m : Big, e : Int]

Pow2[k \in Nat] == IF k = 0 THEN 1 ELSE 2 * Pow2[k - 1]

Digit(a, i) == IF i <= Len(a) THEN a[i] ELSE 0

BTrim[a \in Big] ==
    IF a # <<>> /\ a[Len(a)] = 0 THEN BTrim[SubSeq(a, 1, Len(a) - 1)] ELSE a

BAddFrom[a \in Big, b \in Big, i \in Nat, c \in Nat] ==
    IF i > Len(a) /\ i > Len(b)
    THEN (IF c = 0 THEN <<>> ELSE <<c>>)
    ELSE LET t == Digit(a, i) + Digit(b, i) + c
         IN <<t % Base>> \o BAddFrom[a, b, i + 1, t \div Base]

BAdd[a \in Big, b \in Big] == BAddFrom[a, b, 1, 0]

\* a - b for a >= b
BSubFrom[a \in Big, b \in Big, i \in Nat, c \in Nat] ==
    IF i > Len(a) THEN <<>>
    ELSE LET t == Digit(a, i) - Digit(b, i) - c
         IN IF t < 0 THEN <<t + Base>> \o BSubFrom[a, b, i + 1, 1]
            ELSE <<t>> \o BSubFrom[a, b, i + 1, 0]

BSub[a \in Big, b \in Big] == BTrim[BSubFrom[a, b, 1, 0]]

\* -1, 0, 1 as a < b, a = b, a > b
BCmpFrom[a \in Big, b \in Big, i \in Nat] ==
    IF i = 0 THEN 0
    ELSE IF a[i] < b[i] THEN -1
    ELSE IF a[i] > b[i] THEN 1
    ELSE BCmpFrom[a, b, i - 1]

BCmp[a \in Big, b \in Big] ==
    IF Len(a) < Len(b) THEN -1
    ELSE IF Len(a) > Len(b) THEN 1
    ELSE BCmpFrom[a, b, Len(a)]

\* a * f for 0 < f <= Base
BMulFrom[a \in Big, f \in Nat, i \in Nat, c \in Nat] ==
    IF i > Len(a) THEN (IF c = 0 THEN <<>> ELSE <<c>>)
    ELSE LET t == a[i] * f + c
         IN <<t % Base>> \o BMulFrom[a, f, i + 1, t \div Base]

BMulSmall[a \in Big, f \in Nat] == BMulFrom[a, f, 1, 0]

\* a * 2^k
BShl[a \in Big, k \in Nat] ==
    IF a = <<>> THEN <<>>
    ELSE [i \in 1..(k \div DigitBits) |-> 0] \o BMulSmall[a, Pow2[k % DigitBits]]

\* [q, r] with a = q * n + r for 0 < n <= Base
BDivFrom[a \in Big, n \in Nat, i \in Nat, r \in Nat, q \in Big] ==
    IF i = 0 THEN [q |-> BTrim[q], r |-> r]
    ELSE LET t == r * Base + a[i]
         IN BDivFrom[a, n, i - 1, t % n, <<t \div n>> \o q]

BDivSmall[a \in Big, n \in Nat] == BDivFrom[a, n, Len(a), 0, <<>>]

\* a \div 2^k
BShr[a \in Big, k \in Nat] ==
    LET whole == k \div DigitBits
        cut == IF whole >= Len(a) THEN <<>> ELSE SubSeq(a, whole + 1, Len(a))
    IN BDivSmall[cut, Pow2[k % DigitBits]].q

BitLenSmall[x \in Nat] == IF x = 0 THEN 0 ELSE 1 + BitLenSmall[x \div 2]

BitLen[a \in Big] ==
    IF a = <<>> THEN 0 ELSE DigitBits * (Len(a) - 1) + BitLenSmall[a[Len(a)]]

\* The number of trailing zero bits of a # 0.
LowZerosSmall[x \in Nat] == IF x % 2 = 1 THEN 0 ELSE 1 + LowZerosSmall[x \div 2]

LowZeros[a \in Big, i \in Nat] ==
    IF a[i] = 0 THEN DigitBits + LowZeros[a, i + 1] ELSE LowZerosSmall[a[i]]

FlZero == [s |-> 0, m |-> <<>>, e |-> 0]

\* The double (-1)^s * M * 2^E, for M of at most MantissaBits bits.
MakeFloat[s \in {0, 1}, M \in Big, E \in Int] ==
    IF M = <<>> THEN FlZero
    ELSE LET z == LowZeros[M, 1] IN [s |-> s, m |-> BShr[M, z], e |-> E + z]

\* Round to nearest, ties to even: the double nearest (-1)^s * (M + f) * 2^E,
\* where 0 <= f < 1 and sticky tells whether f > 0.
FlRound[s \in {0, 1}, M \in Big, E \in Int, sticky \in BOOLEAN] ==
    LET L == BitLen[M] IN
    IF L <= MantissaBits THEN MakeFloat[s, M, E]
    ELSE LET d == L - MantissaBits
             Q == BShr[M, d]
             R == BSub[M, BShl[Q, d]]
             c == BCmp[R, BShl[<<1>>, d - 1]]
             up == c > 0 \/ (c = 0 /\ (sticky \/ Q[1] % 2 = 1))
         IN MakeFloat[s, IF up THEN BAdd[Q, <<1>>] ELSE Q, E + d]

FlAdd[x \in Floats, y \in Floats] ==
    IF x.m = <<>> THEN y
    ELSE IF y.m = <<>> THEN x
    ELSE LET E == IF x.e < y.e THEN x.e ELSE y.e
             X == BShl[x.m, x.e - E]
             Y == BShl[y.m, y.e - E]
             c == BCmp[X, Y]
         IN IF x.s = y.s THEN FlRound[x.s, BAdd[X, Y], E, FALSE]
            ELSE IF c = 0 THEN FlZero
            ELSE IF c > 0 THEN FlRound[x.s, BSub[X, Y], E, FALSE]
            ELSE FlRound[y.s, BSub[Y, X], E, FALSE]

\* x / n for an integer 0 < n < 256.  A power of two in n only lowers the
\* exponent, and a quotient of the mantissa without remainder needs no
\* rounding.
FlDivOdd[x \in Floats, n \in Nat, k \in Nat] ==
    IF n % 2 = 0 THEN FlDivOdd[x, n \div 2, k + 1]
    ELSE LET d == BDivSmall[x.m, n] IN
         IF d.r = 0 THEN MakeFloat[x.s, d.q, x.e - k]
         ELSE LET w == BDivSmall[BShl[x.m, 64], n]
              IN FlRound[x.s, w.q, x.e - k - 64, TRUE]

FlDivInt[x \in Floats, n \in Nat] == IF x.m = <<>> THEN FlZero ELSE FlDivOdd[x, n, 0]

\* x <= y
FlLE[x \in Floats, y \in Floats] ==
    LET E == IF x.e < y.e THEN x.e ELSE y.e
        c == BCmp[BShl[x.m, x.e - E], BShl[y.m, y.e - E]]
    IN IF x.s # y.s THEN x.s = 1 \/ (x.m = <<>> /\ y.m = <<>>)
       ELSE IF x.s = 0 THEN c <= 0 ELSE c >= 0

FromInt[n \in Int] ==
    MakeFloat[IF n < 0 THEN 1 ELSE 0,
              IF n = 0 THEN <<>> ELSE <<IF n < 0 THEN -n ELSE n>>, 0]

\* The double nearest 0.1, 0x1.999999999999ap-4.
Tenth == [s |-> 0, m |-> <<19661, 6553, 13107, 102>>, e |-> -55]

(***************************************************************************)
(* Series.mean, Series.min, Series.max on the value column                 *)
(***************************************************************************)
\* The sum is accumulated from 0.0 in row order.
RECURSIVE SumFrom(_, _, _)
SumFrom(rows, i, acc) ==
    IF i > Len(rows) THEN acc ELSE SumFrom(rows, i + 1, FlAdd[acc, rows[i].value])

SumValues(rows) == SumFrom(rows, 1, FlZero)

MeanValue(rows) == FlDivInt[SumValues(rows), Len(rows)]

RECURSIVE MinValue(_)
MinValue(rows) ==
    IF Len(rows) = 1 THEN rows[1].value
    ELSE LET m == MinValue(Tail(rows)) IN
         IF FlLE[Head(rows).value, m] THEN Head(rows).value ELSE m

RECURSIVE MaxValue(_)
MaxValue(rows) ==
    IF Len(rows) = 1 THEN rows[1].value
    ELSE LET m == MaxValue(Tail(rows)) IN
         IF FlLE[m, Head(rows).value] THEN Head(rows).value ELSE m

(***************************************************************************)
(* _compute_stats_from_df                                                  *)
(***************************************************************************)
\* Variant: an empty selection reports zeros.
_compute_stats_from_df_zeros(rows) ==
    LET cnt == Len(rows) IN
    IF cnt = 0
    THEN [count |-> 0, avg |-> Some(FlZero), min |-> Some(FlZero), max |-> Some(FlZero)]
    ELSE [count |-> cnt,
          avg |-> Some(MeanValue(rows)),
          min |-> Some(MinValue(rows)),
          max |-> Some(MaxValue(rows))]

\* Variant: the midrange (min + max) / 2 in place of the mean.
_compute_stats_from_df_midrange(rows) ==
    LET cnt == Len(rows) IN
    IF cnt = 0
    THEN [count |-> 0, avg |-> None, min |-> None, max |-> None]
    ELSE [count |-> cnt,
          avg |-> Some(FlDivInt[FlAdd[MinValue(rows), MaxValue(rows)], 2]),
          min |-> Some(MinValue(rows)),
          max |-> Some(MaxValue(rows))]

_compute_stats_from_df(rows) ==
    LET cnt == Len(rows) IN
    IF cnt = 0
    THEN [count |-> 0, avg |-> None, min |-> None, max |-> None]
    ELSE [count |-> cnt,
          avg |-> Some(MeanValue(rows)),
          min |-> Some(MinValue(rows)),
          max |-> Some(MaxValue(rows))]

(***************************************************************************)
(* The filtering of stats(), lines 89-97                                   *)
(***************************************************************************)
\* df["timestamp"] >= ts or <= ts raises TypeError when exactly one of the
\* column and ts is timezone-aware; a comparison with NaT is False in every row.
CompareRaises(tz, ts) == ~ts.nat /\ (IsNone(tz) # IsNone(ts.tz))

Instant(ts) == IF IsNone(ts.tz) THEN ts.wall ELSE utc(ts)

\* Variant: the start bound is exclusive.
RowGT(row, ts) == ~ts.nat /\ row.timestamp > Instant(ts)

RowGE(row, ts) == ~ts.nat /\ row.timestamp >= Instant(ts)
RowLE(row, ts) == ~ts.nat /\ row.timestamp <= Instant(ts)

\* [raised, rows]: raised = TRUE when a comparison raises TypeError.
FilterRows(df, location, sensor, s, e) ==
    LET r1 == IF IsNone(location) THEN df.rows
              ELSE LET v == lower(strip(Val(location)))
                       K(row) == row.location = v
                   IN SelectSeq(df.rows, K)
        r2 == IF IsNone(sensor) THEN r1
              ELSE LET v == lower(strip(Val(sensor)))
                       K(row) == row.sensor = v
                   IN SelectSeq(r1, K)
        r3 == IF IsNone(s) THEN r2
              ELSE LET K(row) == RowGE(row, Val(s)) IN SelectSeq(r2, K)
        r4 == IF IsNone(e) THEN r3
              ELSE LET K(row) == RowLE(row, Val(e)) IN SelectSeq(r3, K)
    IN IF (~IsNone(s) /\ CompareRaises(df.tz, Val(s)))
          \/ (~IsNone(e) /\ CompareRaises(df.tz, Val(e)))
       THEN [raised |-> TRUE, rows |-> <<>>]
       ELSE [raised |-> FALSE, rows |-> r4]

(***************************************************************************)
(* load_data: the CSV file is a sequence of rows of text cells             *)
(***************************************************************************)
RawRow(ts, loc, sen, val) ==
    [timestamp |-> ts, location |-> loc, sensor |-> sen, value |-> val]

\* pd.to_numeric(errors="coerce") on one cell: None stands for NaN.
to_numeric(s) ==
    CASE s = "-1"  -> Some(FromInt[-1])
      [] s = "0"   -> Some(FlZero)
      [] s = "0.1" -> Some(Tenth)
      [] s = "1"   -> Some(FromInt[1])
      [] s = "3"   -> Some(FromInt[3])
      [] s = "5"   -> Some(FromInt[5])
      [] OTHER     -> None

\* pd.to_datetime(errors="coerce") on one cell.
CoerceDatetime(s) == IF to_datetime(s).ok THEN to_datetime(s).ts ELSE NaT

\* The DataFrame that lines 53-62 leave in _df.  The timestamp column is
\* timezone-aware when its cells carry an offset (the files considered never
\* mix cells with and without one); each row keeps the instant it denotes.
load_data(csv) ==
    LET Valid(r) == ~CoerceDatetime(r.timestamp).nat /\ ~IsNone(to_numeric(r.value))
        kept == SelectSeq(csv, Valid)
        aware == \E i \in 1..Len(csv) : ~IsNone(CoerceDatetime(csv[i].timestamp).tz)
    IN [tz |-> IF aware THEN Some(0) ELSE None,
        rows |-> [i \in 1..Len(kept) |->
                    [timestamp |-> Instant(CoerceDatetime(kept[i].timestamp)),
                     location |-> lower(strip(kept[i].location)),
                     sensor |-> lower(strip(kept[i].sensor)),
                     value |-> Val(to_numeric(kept[i].value))]]]

(***************************************************************************)
(* Inputs of the request machine                                           *)
(***************************************************************************)
CsvNaive ==
    << RawRow("2024-01-01", <<" ", "A", " ">>, <<"T">>, "1"),
       RawRow("2024-01-01T01:00:00", <<"a">>, <<"t">>, "3"),
       RawRow("2024-01-01T02:00:00", <<"b">>, <<"t">>, "5"),
       RawRow("2024-01-01", <<"a">>, <<"t">>, "n/a"),
       RawRow("yesterday", <<"a">>, <<"t">>, "0") >>

CsvAware ==
    << RawRow("2024-01-01T00:00:00Z", <<"a">>, <<"t">>, "1"),
       RawRow("2024-01-01T01:00:00Z", <<"A">>, <<"t">>, "3"),
       RawRow("2024-01-01T02:00:00Z", <<"b">>, <<"t">>, "5") >>

Csvs == {CsvNaive, CsvAware}

Query(loc, sen, s, e) ==
    [location |-> loc, sensor |-> sen, start_date |-> s, end_date |-> e]

Filters ==
    { Query(None, None, None, None),
      Query(Some(<<"a">>), None, None, None),
      Query(Some(<<" ", "A">>), None, None, None),
      Query(Some(<<>>), None, None, None),
      Query(None, Some(<<"t">>), None, None),
      Query(None, None, Some("2024-01-01T01:00:00"), None),
      Query(None, None, Some("2024-01-01 01:00"), None),
      Query(None, None, None, Some("2024-01-01T01:00:00")),
      Query(None, None, Some("not-a-date"), None),
      Query(Some(<<"a">>), None, Some("2024-01-01"), Some("not-a-date")),
      Query(None, None, Some("2024-01-01T01:00:00Z"), None),
      Query(None, None, Some("2024-01-01T02:00:00+01:00"), None) }

(***************************************************************************)
(* Responses                                                               *)
(***************************************************************************)
Ok(q, k, flag, st) ==
    [status |-> 200, detail |-> "", xcache |-> flag, stats |-> Some(st),
     args |-> q, key |-> k]

Error(q, k, code, why) ==
    [status |-> code, detail |-> why, xcache |-> "", stats |-> None,
     args |-> q, key |-> k]

Idle(t) == pc[t] = "idle"
OthersIdle(t) == \A u \in Threads \ {t} : Idle(u)

\* History kept when a request that carried key k ends.
Answer(k, q, st) ==
    IF IsNone(k) THEN answered
    ELSE [x \in DOMAIN answered \cup {Val(k)} |->
            IF x = Val(k)
            THEN (IF x \in DOMAIN answered THEN answered[x] ELSE {})
                 \cup {[args |-> q, stats |-> st]}
            ELSE answered[x]]

\* The thread sends response r: its frame is dropped.
Finish(t, r, alone, before) ==
    /\ pc' = [pc EXCEPT ![t] = "idle"]
    /\ lastDone' = Some([r |-> r, before |-> IF alone THEN before ELSE None])
    /\ answered' = Answer(r.key, r.args, r.stats)
    /\ args' = [args EXCEPT ![t] = None]
    /\ sd' = [sd EXCEPT ![t] = None]
    /\ ed' = [ed EXCEPT ![t] = None]
    /\ key' = [key EXCEPT ![t] = None]
    /\ stats_obj' = [stats_obj EXCEPT ![t] = None]
    /\ solo' = [solo EXCEPT ![t] = FALSE]
    /\ prev' = [prev EXCEPT ![t] = None]

\* The response that ended last, when thread t's request arrives with no
\* other request in flight.
Before(t) ==
    IF OthersIdle(t) /\ ~IsNone(lastDone) THEN Some(Val(lastDone).r) ELSE None

(***************************************************************************)
(* Startup                                                                 *)
(***************************************************************************)
LoadData ==
    /\ IsNone(_df)
    /\ \E csv \in Csvs : _df' = Some(load_data(csv))
    /\ UNCHANGED <<_cache, _cache_lock, pc, args, sd, ed, key, stats_obj,
                   issued, solo, prev, lastDone, answered>>
    /\ UNCHANGED aggVars

(***************************************************************************)
(* stats(), one action per atomic step of a worker thread                  *)
(***************************************************************************)
\* Lines 73-82: the _df check, the two _parse_date calls and the key.
StatsValidate(t) ==
    /\ Idle(t)
    /\ issued < MaxRequests
    /\ issued' = issued + 1
    /\ \E q \in Filters :
         LET s == _parse_date(q.start_date)
             e == _parse_date(q.end_date)
             k == _make_cache_key(q.location, q.sensor,
                                  IsoOrNone(s.val), IsoOrNone(e.val))
         IN IF IsNone(_df)
            THEN Finish(t, Error(q, None, 500, "Data not loaded"),
                        OthersIdle(t), Before(t))
            ELSE IF s.err \/ e.err
            THEN Finish(t, Error(q, None, 400, "Invalid date format"),
                        OthersIdle(t), Before(t))
            ELSE /\ pc' = [pc EXCEPT ![t] = "L84"]
                 /\ args' = [args EXCEPT ![t] = Some(q)]
                 /\ sd' = [sd EXCEPT ![t] = s.val]
                 /\ ed' = [ed EXCEPT ![t] = e.val]
                 /\ key' = [key EXCEPT ![t] = Some(k)]
                 /\ solo' = [u \in Threads |-> IF u = t THEN OthersIdle(t) ELSE FALSE]
                 /\ prev' = [prev EXCEPT ![t] = Before(t)]
                 /\ UNCHANGED <<stats_obj, lastDone, answered>>
    /\ UNCHANGED <<_df, _cache, _cache_lock>>
    /\ UNCHANGED aggVars

\* Variant: the with block is entered without waiting for the lock.
AcquireLookup_nowait(t) ==
    /\ pc[t] = "L84"
    /\ _cache_lock' = t
    /\ pc' = [pc EXCEPT ![t] = "L85"]
    /\ UNCHANGED <<_df, _cache, args, sd, ed, key, stats_obj, issued, solo,
                   prev, lastDone, answered>>
    /\ UNCHANGED aggVars

\* Line 84: with _cache_lock (acquire).
AcquireLookup(t) ==
    /\ pc[t] = "L84"
    /\ _cache_lock = 0
    /\ _cache_lock' = t
    /\ pc' = [pc EXCEPT ![t] = "L85"]
    /\ UNCHANGED <<_df, _cache, args, sd, ed, key, stats_obj, issued, solo,
                   prev, lastDone, answered>>
    /\ UNCHANGED aggVars

\* Variant: one with block around the whole of lines 85-102; the lock is
\* kept on a miss.
LookupTest_hold(t) ==
    /\ pc[t] = "L85"
    /\ IF Val(key[t]) \in DOMAIN _cache
       THEN pc' = [pc EXCEPT ![t] = "L86"]
       ELSE pc' = [pc EXCEPT ![t] = "L89"]
    /\ UNCHANGED <<_df, _cache, _cache_lock, args, sd, ed, key, stats_obj,
                   issued, solo, prev, lastDone, answered>>
    /\ UNCHANGED aggVars

\* Variant: the membership test is skipped and every lookup misses.
LookupTest_miss(t) ==
    /\ pc[t] = "L85"
    /\ pc' = [pc EXCEPT ![t] = "L89"]
    /\ _cache_lock' = 0
    /\ UNCHANGED <<_df, _cache, args, sd, ed, key, stats_obj, issued, solo,
                   prev, lastDone, answered>>
    /\ UNCHANGED aggVars

\* Line 85: the membership test; on a miss the with block ends and the lock
\* is released.
LookupTest(t) ==
    /\ pc[t] = "L85"
    /\ IF Val(key[t]) \in DOMAIN _cache
       THEN /\ pc' = [pc EXCEPT ![t] = "L86"]
            /\ UNCHANGED _cache_lock
       ELSE /\ pc' = [pc EXCEPT ![t] = "L89"]
            /\ _cache_lock' = 0
    /\ UNCHANGED <<_df, _cache, args, sd, ed, key, stats_obj, issued, solo,
                   prev, lastDone, answered>>
    /\ UNCHANGED aggVars

\* Variant: a hit does not return; the request goes on to aggregate and
\* store.
LookupHit_recompute(t) ==
    /\ pc[t] = "L86"
    /\ pc' = [pc EXCEPT ![t] = "L89"]
    /\ _cache_lock' = 0
    /\ UNCHANGED <<_df, _cache, args, sd, ed, key, stats_obj, issued, solo,
                   prev, lastDone, answered>>
    /\ UNCHANGED aggVars

\* Variant: the early return leaves the with block without releasing.
LookupHit_keeps_lock(t) ==
    /\ pc[t] = "L86"
    /\ Finish(t, Ok(Val(args[t]), key[t], "HIT", _cache[Val(key[t])]),
              solo[t], prev[t])
    /\ UNCHANGED <<_df, _cache, _cache_lock, issued>>
    /\ UNCHANGED aggVars

\* Lines 86-87: X-Cache: HIT, return the cached value; the lock is released.
LookupHit(t) ==
    /\ pc[t] = "L86"
    /\ Finish(t, Ok(Val(args[t]), key[t], "HIT", _cache[Val(key[t])]),
              solo[t], prev[t])
    /\ _cache_lock' = 0
    /\ UNCHANGED <<_df, _cache, issued>>
    /\ UNCHANGED aggVars

\* Variant: the filters are applied to the shared frame itself (_df = _df[...]).
Compute_inplace(t) ==
    /\ pc[t] = "L89"
    /\ LET q == Val(args[t])
           f == FilterRows(Val(_df), q.location, q.sensor, sd[t], ed[t])
       IN IF f.raised
          THEN /\ Finish(t, Error(q, key[t], 500, "Internal Server Error"),
                         solo[t], prev[t])
               /\ UNCHANGED _df
          ELSE /\ _df' = Some([tz |-> Val(_df).tz, rows |-> f.rows])
               /\ stats_obj' = [stats_obj EXCEPT ![t] = Some(_compute_stats_from_df(f.rows))]
               /\ pc' = [pc EXCEPT ![t] = "L101"]
               /\ UNCHANGED <<args, sd, ed, key, solo, prev, lastDone, answered>>
    /\ UNCHANGED <<_cache, _cache_lock, issued>>
    /\ UNCHANGED aggVars

\* Variant: a comparison that raises is swallowed and the rows selected so
\* far (none) are aggregated and stored.
Compute_partial(t) ==
    /\ pc[t] = "L89"
    /\ LET q == Val(args[t])
           f == FilterRows(Val(_df), q.location, q.sensor, sd[t], ed[t])
       IN /\ stats_obj' = [stats_obj EXCEPT ![t] = Some(_compute_stats_from_df(f.rows))]
          /\ pc' = [pc EXCEPT ![t] = "L101"]
          /\ UNCHANGED <<args, sd, ed, key, solo, prev, lastDone, answered>>
    /\ UNCHANGED <<_df, _cache, _cache_lock, issued>>
    /\ UNCHANGED aggVars

\* Lines 89-99: filter _df and aggregate; a TypeError raised by a timestamp
\* comparison is not caught and ends the request with status 500.
Compute(t) ==
    /\ pc[t] = "L89"
    /\ LET q == Val(args[t])
           f == FilterRows(Val(_df), q.location, q.sensor, sd[t], ed[t])
       IN IF f.raised
          THEN Finish(t, Error(q, key[t], 500, "Internal Server Error"),
                      solo[t], prev[t])
          ELSE /\ stats_obj' = [stats_obj EXCEPT ![t] = Some(_compute_stats_from_df(f.rows))]
               /\ pc' = [pc EXCEPT ![t] = "L101"]
               /\ UNCHANGED <<args, sd, ed, key, solo, prev, lastDone, answered>>
    /\ UNCHANGED <<_df, _cache, _cache_lock, issued>>
    /\ UNCHANGED aggVars

\* Line 101: with _cache_lock (acquire).
AcquireStore(t) ==
    /\ pc[t] = "L101"
    /\ _cache_lock = 0
    /\ _cache_lock' = t
    /\ pc' = [pc EXCEPT ![t] = "L102"]
    /\ UNCHANGED <<_df, _cache, args, sd, ed, key, stats_obj, issued, solo,
                   prev, lastDone, answered>>
    /\ UNCHANGED aggVars

\* Variant: the dict is replaced by one holding the new entry alone.
CachePut_replace(cache, k, v) == [x \in {k} |-> v]

\* _cache[key] = stats_obj
CachePut(cache, k, v) ==
    [x \in DOMAIN cache \cup {k} |-> IF x = k THEN v ELSE cache[x]]

\* Line 102: the store; the with block ends and the lock is released.
Store(t) ==
    /\ pc[t] = "L102"
    /\ _cache' = CachePut(_cache, Val(key[t]), Val(stats_obj[t]))
    /\ _cache_lock' = 0
    /\ pc' = [pc EXCEPT ![t] = "L104"]
    /\ UNCHANGED <<_df, args, sd, ed, key, stats_obj, issued, solo, prev,
                   lastDone, answered>>
    /\ UNCHANGED aggVars

\* Lines 104-105: X-Cache: MISS, return the computed value.
ReturnMiss(t) ==
    /\ pc[t] = "L104"
    /\ Finish(t, Ok(Val(args[t]), key[t], "MISS", Val(stats_obj[t])),
              solo[t], prev[t])
    /\ UNCHANGED <<_df, _cache, _cache_lock, issued>>
    /\ UNCHANGED aggVars

(***************************************************************************)
(* The request machine                                                     *)
(***************************************************************************)
Init ==
    /\ _df = None
    /\ _cache = <<>>
    /\ _cache_lock = 0
    /\ pc = [t \in Threads |-> "idle"]
    /\ args = [t \in Threads |-> None]
    /\ sd = [t \in Threads |-> None]
    /\ ed = [t \in Threads |-> None]
    /\ key = [t \in Threads |-> None]
    /\ stats_obj = [t \in Threads |-> None]
    /\ issued = 0
    /\ solo = [t \in Threads |-> FALSE]
    /\ prev = [t \in Threads |-> None]
    /\ lastDone = None
    /\ answered = <<>>
    /\ aggDf = None
    /\ aggArgs = None
    /\ aggOut = None

Next ==
    \/ LoadData
    \/ \E t \in Threads : StatsValidate(t)
    \/ \E t \in Threads : AcquireLookup(t)
    \/ \E t \in Threads : LookupTest(t)
    \/ \E t \in Threads : LookupHit(t)
    \/ \E t \in Threads : Compute(t)
    \/ \E t \in Threads : AcquireStore(t)
    \/ \E t \in Threads : Store(t)
    \/ \E t \in Threads : ReturnMiss(t)

Spec == Init /\ [][Next]_vars

\* A worker thread that can take its next step takes it: the steps of a
\* request in flight are weakly fair; arrivals and the load are not.
StatsStep(t) ==
    \/ AcquireLookup(t)
    \/ LookupTest(t)
    \/ LookupHit(t)
    \/ Compute(t)
    \/ AcquireStore(t)
    \/ Store(t)
    \/ ReturnMiss(t)

Fairness == \A t \in Threads : WF_vars(StatsStep(t))

SpecFair == Spec /\ Fairness

(***************************************************************************)
(* The aggregation alone: lines 89-99 applied to one DataFrame and one     *)
(* set of query parameters whose dates parse                               *)
(***************************************************************************)
Row(ts, loc, sen, val) ==
    [timestamp |-> ts, location |-> loc, sensor |-> sen, value |-> val]

\* Rows as load_data leaves them: location and sensor trimmed and lowercased.
RowPool ==
    { Row(0, <<"a">>, <<"t">>, FromInt[1]),
      Row(1, <<"a">>, <<"t">>, FromInt[3]),
      Row(2, <<"a">>, <<"t">>, FromInt[5]),
      Row(1, <<"b">>, <<"t">>, Tenth),
      Row(2, <<"b">>, <<"h">>, FromInt[-1]) }

Frames ==
    { [tz |-> z, rows |-> r] :
        z \in {None, Some(0)},
        r \in UNION { [1..n -> RowPool] : n \in 0..MaxRows } }

AggFilters ==
    { Query(l, n, s, e) :
        l \in {None, Some(<<" ", "A">>), Some(<<"b">>), Some(<<>>)},
        n \in {None, Some(<<"T", " ">>)},
        s \in {None, Some("2024-01-01T01:00:00"), Some("2024-01-01T01:00:00Z"),
               Some("2024-01-01T02:00:00+01:00"), Some("")},
        e \in {None, Some("2024-01-01 01:00"), Some("2024-01-01T01:00:00Z")} }

Aggregate ==
    /\ IsNone(aggOut)
    /\ LET q == Val(aggArgs)
           f == FilterRows(Val(aggDf), q.location, q.sensor,
                           _parse_date(q.start_date).val, _parse_date(q.end_date).val)
       IN aggOut' = Some([raised |-> f.raised,
                          stats |-> IF f.raised THEN None
                                    ELSE Some(_compute_stats_from_df(f.rows))])
    /\ UNCHANGED <<aggDf, aggArgs>>
    /\ UNCHANGED mainVars

InitAgg ==
    /\ _df = None
    /\ _cache = <<>>
    /\ _cache_lock = 0
    /\ pc = [t \in Threads |-> "idle"]
    /\ args = [t \in Threads |-> None]
    /\ sd = [t \in Threads |-> None]
    /\ ed = [t \in Threads |-> None]
    /\ key = [t \in Threads |-> None]
    /\ stats_obj = [t \in Threads |-> None]
    /\ issued = 0
    /\ solo = [t \in Threads |-> FALSE]
    /\ prev = [t \in Threads |-> None]
    /\ lastDone = None
    /\ answered = <<>>
    /\ aggDf \in {Some(d) : d \in Frames}
    /\ aggArgs \in {Some(q) : q \in AggFilters}
    /\ aggOut = None

NextAgg == Aggregate

SpecAgg == InitAgg /\ [][NextAgg]_vars

(***************************************************************************)
(* Vocabulary of the properties                                            *)
(***************************************************************************)
Loaded == ~IsNone(_df)
HasLast == ~IsNone(lastDone)
Last == Val(lastDone).r
HasBefore == HasLast /\ ~IsNone(Val(lastDone).before)
LastBefore == Val(Val(lastDone).before)

Unparseable(d) == ~IsNone(d) /\ ~to_datetime(Val(d)).ok
BadDate(q) == Unparseable(q.start_date) \/ Unparseable(q.end_date)

\* What a string filter selects: nothing to compare (absent), or the
\* trimmed, lowercased text.
TextSense(x) == IF IsNone(x) THEN None ELSE Some(lower(strip(Val(x))))

\* What a date filter denotes: absent, not-a-time, or an instant that is
\* either a wall-clock reading (no zone) or a UTC instant.
DateSense(d) ==
    IF IsNone(d) THEN <<"absent">>
    ELSE LET ts == to_datetime(Val(d)).ts IN
         IF ts.nat THEN <<"NaT">>
         ELSE IF IsNone(ts.tz) THEN <<"wall", ts.wall>>
         ELSE <<"utc", ts.wall - Val(ts.tz)>>

\* The two filters differ in at least one dimension.
Differ(f, g) ==
    \/ TextSense(f.location) # TextSense(g.location)
    \/ TextSense(f.sensor) # TextSense(g.sensor)
    \/ DateSense(f.start_date) # DateSense(g.start_date)
    \/ DateSense(f.end_date) # DateSense(g.end_date)

\* The result of an uncached service: filter the dataset, aggregate.
Uncached(df, q) ==
    _compute_stats_from_df(
        FilterRows(df, q.location, q.sensor,
                   _parse_date(q.start_date).val, _parse_date(q.end_date).val).rows)

\* The parameters of every request, finished or in flight, that carried key k.
Carried(k) ==
    (IF k \in DOMAIN answered THEN {a.args : a \in answered[k]} ELSE {})
    \cup {Val(args[t]) : t \in {u \in Threads : key[u] = Some(k)}}

CarriedKeys ==
    DOMAIN answered \cup {Val(key[t]) : t \in {u \in Threads : ~IsNone(key[u])}}

WellFormed(st) ==
    /\ st.count >= 0
    /\ (st.count > 0) <=> ~IsNone(st.avg)
    /\ (st.count > 0) <=> ~IsNone(st.min)
    /\ (st.count > 0) <=> ~IsNone(st.max)

(***************************************************************************)
(* C1: with the dataset loaded, a request whose dates parse, repeated with *)
(* no other request in between, gets the same result both times and the   *)
(* second response is flagged HIT.                                         *)
(***************************************************************************)
C1_Idempotence ==
    (/\ HasBefore
     /\ LastBefore.args = Last.args
     /\ ~BadDate(Last.args)
     /\ LastBefore.detail # "Data not loaded"
     /\ Last.detail # "Data not loaded")
    => /\ LastBefore.status = 200
       /\ Last.status = 200
       /\ Last.stats = LastBefore.stats
       /\ Last.xcache = "HIT"

(***************************************************************************)
(* C2: once every request has finished, each key that requests carried has *)
(* an entry in the cache and every one of those requests returned exactly  *)
(* the value of that entry.                                                *)
(***************************************************************************)
C2_ConcurrentMiss ==
    (\A t \in Threads : Idle(t))
    => \A k \in DOMAIN answered :
         /\ k \in DOMAIN _cache
         /\ \A a \in answered[k] : a.stats = Some(_cache[k])

\* The step answers 400 at once, without a key, and leaves the cache as it was.
RejectedBadDate(t) ==
    /\ pc'[t] = "idle"
    /\ Val(lastDone').r.status = 400
    /\ Val(lastDone').r.xcache = ""
    /\ IsNone(Val(lastDone').r.key)
    /\ _cache' = _cache
    /\ answered' = answered

ReceivesBadDate(t) ==
    /\ StatsValidate(t)
    /\ BadDate(IF pc'[t] = "idle" THEN Val(lastDone').r.args ELSE Val(args'[t]))

(***************************************************************************)
(* C3 as stated: in every state of the service, a request with a           *)
(* start_date or end_date that does not parse is answered 400 at once,     *)
(* without a key, never flagged HIT, and the cache is left as it was.      *)
(***************************************************************************)
C3_Original ==
    [][\A t \in Threads : ReceivesBadDate(t) => RejectedBadDate(t)]_vars

(***************************************************************************)
(* C3 as amended: once the dataset is loaded, a request with a start_date  *)
(* or end_date that does not parse is answered 400 at once, without a      *)
(* key, never flagged HIT, and the cache is left as it was.                *)
(***************************************************************************)
C3_InvalidDate ==
    [][\A t \in Threads : (Loaded /\ ReceivesBadDate(t)) => RejectedBadDate(t)]_vars

C3_Witness ==
    /\ HasLast
    /\ Last.status = 400
    /\ ~Unparseable(Last.args.start_date)
    /\ ~IsNone(Last.args.start_date)
    /\ Unparseable(Last.args.end_date)
    /\ DOMAIN _cache # {}

(***************************************************************************)
(* C4: no step removes a key from the cache or changes the value a key is  *)
(* mapped to.                                                              *)
(***************************************************************************)
C4_AppendOnly ==
    [][\A k \in DOMAIN _cache : k \in DOMAIN _cache' /\ _cache'[k] = _cache[k]]_vars

\* Two requests have both stored under the same key.
C4_Witness ==
    \E t, u \in Threads :
        /\ t # u
        /\ pc[t] = "L104"
        /\ pc[u] = "L104"
        /\ key[t] = key[u]

(***************************************************************************)
(* C5: the result of every successful response, HIT or MISS, is the result *)
(* of aggregating the dataset with the request's own filter.               *)
(***************************************************************************)
C5_SameAsUncached ==
    (HasLast /\ Last.status = 200)
    => Last.stats = Some(Uncached(Val(_df), Last.args))

\* A HIT served from an entry that a request with another spelling stored.
C5_Witness ==
    /\ HasLast
    /\ Last.xcache = "HIT"
    /\ Val(Last.stats).count > 0
    /\ \E a \in answered[Val(Last.key)] : a.args # Last.args

(***************************************************************************)
(* C6: when a request has been served and the next request differs from it *)
(* only in the whitespace or case of location or sensor, or in the         *)
(* spelling of a date denoting the same instant, the next request has the  *)
(* same key and is flagged HIT.                                            *)
(***************************************************************************)
C6_KeyEquivalence ==
    (/\ HasBefore
     /\ LastBefore.status = 200
     /\ ~Differ(LastBefore.args, Last.args))
    => /\ Last.key = LastBefore.key
       /\ Last.xcache = "HIT"

(***************************************************************************)
(* C7: requests whose filters differ in any dimension (an absent field     *)
(* against an empty string included) never carry the same key, so neither  *)
(* is served from, or stores into, the other's cache entry.                *)
(***************************************************************************)
C7_KeyDistinct ==
    \A k \in CarriedKeys : \A f, g \in Carried(k) : ~Differ(f, g)

\* Entries for an absent location and for an empty location side by side.
C7_Witness ==
    \E k1, k2 \in DOMAIN _cache :
        /\ k1[1] = None
        /\ k2[1] = Some(<<>>)
        /\ k1[2] = k2[2] /\ k1[3] = k2[3] /\ k1[4] = k2[4]
        /\ _cache[k1] # _cache[k2]

(***************************************************************************)
(* C9: every result computed, cached or returned has avg, min and max      *)
(* present exactly when count > 0; a zero-count result is returned with    *)
(* status 200 and is in the cache under the request's key.                 *)
(***************************************************************************)
C9_EmptyResult ==
    /\ \A k \in DOMAIN _cache : WellFormed(_cache[k])
    /\ \A t \in Threads : ~IsNone(stats_obj[t]) => WellFormed(Val(stats_obj[t]))
    /\ (HasLast /\ ~IsNone(Last.stats)) =>
          /\ WellFormed(Val(Last.stats))
          /\ Last.status = 200
          /\ Val(Last.stats).count = 0 =>
                /\ Val(Last.stats) = [count |-> 0, avg |-> None, min |-> None, max |-> None]
                /\ Val(Last.key) \in DOMAIN _cache
                /\ _cache[Val(Last.key)] = Val(Last.stats)

\* A request matched no row, was answered MISS, and its result is cached.
C9_Witness ==
    /\ HasLast
    /\ Last.xcache = "MISS"
    /\ Val(Last.stats).count = 0
    /\ Val(Last.key) \in DOMAIN _cache

(***************************************************************************)
(* Vocabulary of the aggregation properties                                *)
(***************************************************************************)
Computed == ~IsNone(aggOut) /\ ~Val(aggOut).raised
AggStats == Val(Val(aggOut).stats)
AggRows == Val(aggDf).rows

\* row.timestamp >= the date / <= the date, as instants; no instant is at or
\* after, or at or before, not-a-time.
AtOrAfter(t, d) ==
    LET ts == to_datetime(Val(d)).ts IN
    ~ts.nat /\ t >= ts.wall - (IF IsNone(ts.tz) THEN 0 ELSE Val(ts.tz))

AtOrBefore(t, d) ==
    LET ts == to_datetime(Val(d)).ts IN
    ~ts.nat /\ t <= ts.wall - (IF IsNone(ts.tz) THEN 0 ELSE Val(ts.tz))

Matches(row, q) ==
    /\ IsNone(q.location) \/ row.location = lower(strip(Val(q.location)))
    /\ IsNone(q.sensor) \/ row.sensor = lower(strip(Val(q.sensor)))
    /\ IsNone(q.start_date) \/ AtOrAfter(row.timestamp, q.start_date)
    /\ IsNone(q.end_date) \/ AtOrBefore(row.timestamp, q.end_date)

Matching == {i \in 1..Len(AggRows) : Matches(AggRows[i], Val(aggArgs))}

\* Exact arithmetic on the matching values: every magnitude as a natural
\* number of units 2^Unit.
MatchedValues == {AggRows[i].value : i \in Matching}

Unit ==
    LET es == {v.e : v \in MatchedValues} \cup {Val(AggStats.avg).e, 0}
    IN CHOOSE e \in es : \A f \in es : e <= f

Mag(x) == BShl[x.m, x.e - Unit]

\* The sum of the magnitudes of the matching values of sign s.
RECURSIVE MagSum(_, _)
MagSum(S, s) ==
    IF S = {} THEN <<>>
    ELSE LET i == CHOOSE j \in S : TRUE
             rest == MagSum(S \ {i}, s)
         IN IF AggRows[i].value.s = s THEN BAdd[Mag(AggRows[i].value), rest] ELSE rest

\* | avg * count - (sum of the matching values) |
MeanGap ==
    LET A == BMulSmall[Mag(Val(AggStats.avg)), AggStats.count]
        P == MagSum(Matching, 0)
        N == MagSum(Matching, 1)
        X == IF Val(AggStats.avg).s = 0 THEN BAdd[A, N] ELSE N
        Y == IF Val(AggStats.avg).s = 0 THEN P ELSE BAdd[A, P]
    IN IF BCmp[X, Y] >= 0 THEN BSub[X, Y] ELSE BSub[Y, X]

\* count, min and max of the result are those of the matching rows.
CountMinMax ==
    /\ AggStats.count = Cardinality(Matching)
    /\ ~IsNone(AggStats.min) /\ ~IsNone(AggStats.max) /\ ~IsNone(AggStats.avg)
    /\ Val(AggStats.min) \in MatchedValues
    /\ \A v \in MatchedValues : FlLE[Val(AggStats.min), v]
    /\ Val(AggStats.max) \in MatchedValues
    /\ \A v \in MatchedValues : FlLE[v, Val(AggStats.max)]

(***************************************************************************)
(* C8: the rows counted are exactly those that pass all four tests, each   *)
(* test passing when its filter is absent, with both date bounds           *)
(* inclusive.                                                              *)
(***************************************************************************)
C8_Conjunctive ==
    Computed => AggStats.count = Cardinality(Matching)

\* All four filters given, start and end the same instant: of three rows,
\* the one stamped with that instant is counted.
C8_Witness ==
    /\ Computed
    /\ \A f \in {"location", "sensor", "start_date", "end_date"} :
          ~IsNone(Val(aggArgs)[f])
    /\ Len(AggRows) = 3
    /\ AggStats.count = 1
    /\ \E i \in Matching :
          /\ AtOrAfter(AggRows[i].timestamp, Val(aggArgs).start_date)
          /\ ~AtOrAfter(AggRows[i].timestamp - 1, Val(aggArgs).start_date)
          /\ AtOrBefore(AggRows[i].timestamp, Val(aggArgs).end_date)
          /\ ~AtOrBefore(AggRows[i].timestamp + 1, Val(aggArgs).end_date)

\* avg is the sum of the matching values divided by count to within float64
\* rounding: |avg * count - sum| <= 2 * count * 2^-53 * (sum of the |values|).
MeanWithinRounding ==
    BCmp[BShl[MeanGap, MantissaBits],
         BMulSmall[BAdd[MagSum(Matching, 0), MagSum(Matching, 1)],
                   2 * AggStats.count]] <= 0

(***************************************************************************)
(* C10 as stated: over a non-empty set of matching rows, count is their    *)
(* number, min and max are the least and greatest value, avg is the sum    *)
(* of the values divided by count (in 64-bit floating point), and          *)
(* min <= avg <= max.                                                      *)
(***************************************************************************)
C10_Original ==
    (Computed /\ Matching # {}) =>
        /\ CountMinMax
        /\ MeanWithinRounding
        /\ FlLE[Val(AggStats.min), Val(AggStats.avg)]
        /\ FlLE[Val(AggStats.avg), Val(AggStats.max)]

(***************************************************************************)
(* C10 as amended: over a non-empty set of matching rows, count is their   *)
(* number, min and max are the least and greatest value, and avg is the    *)
(* sum of the values divided by count to within float64 rounding; avg is   *)
(* not promised to lie between min and max.                                *)
(***************************************************************************)
C10_Aggregation ==
    (Computed /\ Matching # {}) => (CountMinMax /\ MeanWithinRounding)

\* Values 1, 3, 5, all matching: count 3, avg 3, min 1, max 5.
C10_Witness ==
    /\ Computed
    /\ Len(AggRows) = 3
    /\ \A i \in 1..3 : AggRows[i].value = FromInt[2 * i - 1]
    /\ Matching = {1, 2, 3}
    /\ AggStats = [count |-> 3, avg |-> Some(FromInt[3]),
                   min |-> Some(FromInt[1]), max |-> Some(FromInt[5])]

(***************************************************************************)
(* C11 .. C18: the service before load, the lock, and the frame of each    *)
(* step                                                                    *)
(***************************************************************************)
NotLoadedError(r) == r.status = 500 /\ r.detail = "Data not loaded"

\* A request that arrives before load is answered 500 at once, without a
\* key, and the step leaves the cache as it was.
RefusedUnloaded(t) ==
    /\ pc'[t] = "idle"
    /\ NotLoadedError(Val(lastDone').r)
    /\ IsNone(Val(lastDone').r.stats)
    /\ IsNone(Val(lastDone').r.key)
    /\ _cache' = _cache

EmptyUntilLoaded == ~Loaded => _cache = <<>>

\* The request refused before load, repeated as the next request once the
\* dataset is loaded, its dates parsing: answered 200 and flagged MISS.
NotSticky ==
    (/\ HasBefore
     /\ NotLoadedError(LastBefore)
     /\ Last.args = LastBefore.args
     /\ ~NotLoadedError(Last)
     /\ ~BadDate(Last.args))
    => (Last.status = 200 /\ Last.xcache = "MISS")

(***************************************************************************)
(* C11: a request that arrives while the dataset is not loaded is answered *)
(* 500 and leaves the cache unchanged; the cache is empty as long as the   *)
(* dataset is unloaded; the same request repeated after the load succeeds  *)
(* and is flagged MISS.                                                    *)
(***************************************************************************)
C11_DataUnavailable ==
    /\ [][\A t \in Threads : (~Loaded /\ StatsValidate(t)) => RefusedUnloaded(t)]_vars
    /\ []EmptyUntilLoaded
    /\ []NotSticky

\* The positions inside a with _cache_lock block.
InLookup(t) == pc[t] \in {"L85", "L86"}
InStore(t) == pc[t] = "L102"
InCritical(t) == InLookup(t) \/ InStore(t)

\* One holder at most, and the holder is the thread inside a with block.
MutualExclusion ==
    /\ \A t \in Threads : InCritical(t) <=> _cache_lock = t
    /\ \A t, u \in Threads : (InCritical(t) /\ InCritical(u)) => t = u

\* Between the membership test and the read the key is still there.
ReadFindsKey ==
    \A t \in Threads : pc[t] = "L86" => Val(key[t]) \in DOMAIN _cache

\* A HIT carries the whole entry of its key: a record of count, avg, min, max.
HitIsWholeEntry ==
    (HasLast /\ Last.xcache = "HIT") =>
        /\ Last.stats = Some(_cache[Val(Last.key)])
        /\ DOMAIN Val(Last.stats) = {"count", "avg", "min", "max"}
        /\ WellFormed(Val(Last.stats))

(***************************************************************************)
(* C12: at most one request holds _cache_lock at a time; no step changes   *)
(* the cache while a request is between acquiring the lock for its lookup  *)
(* and reading the cached value, and the key tested is there when read; a  *)
(* HIT returns a whole entry.                                              *)
(***************************************************************************)
C12_LockAtomicity ==
    /\ []MutualExclusion
    /\ []ReadFindsKey
    /\ []HitIsWholeEntry
    /\ [][(\E t \in Threads : InLookup(t)) => _cache' = _cache]_vars

\* A lookup holds the lock, its test still to come, while a request that
\* computed the same key waits to store.
C12_Witness ==
    \E t, u \in Threads :
        /\ pc[t] = "L85"
        /\ _cache_lock = t
        /\ pc[u] = "L101"
        /\ key[u] = key[t]

\* A thread that is not inside a with block does not hold the lock.
ReleasedOutside == \A t \in Threads : ~InCritical(t) => _cache_lock # t

Terminates(t) == (pc[t] # "idle") ~> (pc[t] = "idle")

(***************************************************************************)
(* C13: under fair scheduling of the worker threads every request in       *)
(* flight ends (error, HIT or MISS), and the lock is held by no request    *)
(* that has left its with block, the early return on a hit included.       *)
(***************************************************************************)
C13_NoDeadlock ==
    /\ \A t \in Threads : Terminates(t)
    /\ []ReleasedOutside

\* A request waits for the lock that another request holds.
C13_Witness ==
    \E t, u \in Threads :
        /\ t # u
        /\ pc[t] \in {"L84", "L101"}
        /\ _cache_lock = u

\* The key of line 82 for the parameters q, whose dates parse.
KeyOf(q) ==
    _make_cache_key(q.location, q.sensor,
                    IsoOrNone(_parse_date(q.start_date).val),
                    IsoOrNone(_parse_date(q.end_date).val))

NormalizesTo(q, k) == ~BadDate(q) /\ KeyOf(q) = k

\* Filtering the dataset by q raises.
Raises(df, q) ==
    FilterRows(df, q.location, q.sensor,
               _parse_date(q.start_date).val, _parse_date(q.end_date).val).raised

\* Every entry is the aggregate of the dataset under every filter of its key.
CacheConsistent ==
    \A k \in DOMAIN _cache :
        /\ Loaded
        /\ \A q \in Filters :
              NormalizesTo(q, k) =>
                  (~Raises(Val(_df), q) /\ _cache[k] = Uncached(Val(_df), q))

\* A step that changes the cache is the store of a thread that holds its
\* validated parameters, their key and the aggregate it computed.
WrittenByStore ==
    (_cache' # _cache) =>
        \E t \in Threads :
            /\ pc[t] = "L102" /\ pc'[t] = "L104"
            /\ ~BadDate(Val(args[t]))
            /\ key[t] = Some(KeyOf(Val(args[t])))
            /\ ~Raises(Val(_df), Val(args[t]))
            /\ stats_obj[t] = Some(Uncached(Val(_df), Val(args[t])))
            /\ _cache' = CachePut(_cache, Val(key[t]), Val(stats_obj[t]))

(***************************************************************************)
(* C14: in every reachable state every cache entry is the aggregate of the *)
(* dataset under every filter that normalizes to its key; the cache is     *)
(* written only by a request that validated and aggregated, and a request  *)
(* that failed leaves no entry.                                            *)
(***************************************************************************)
C14_CacheConsistency ==
    /\ []CacheConsistent
    /\ [][WrittenByStore]_vars

\* A computation failed after another request had stored its result: the
\* cache holds that entry and nothing under the failed request's key.
C14_Witness ==
    /\ HasLast
    /\ Last.status = 500
    /\ ~IsNone(Last.key)
    /\ Val(Last.key) \notin DOMAIN _cache
    /\ \E k \in DOMAIN _cache : _cache[k].count > 0

\* Thread t's request ends in this step with response flag x.
EndsFlagged(t, x) ==
    /\ pc[t] # "idle" /\ pc'[t] = "idle"
    /\ Val(lastDone').r.xcache = x

\* The lookup of a key that has been stored takes the hit path, that of a
\* key not yet stored the miss path.
LookupDecides(t) ==
    (pc[t] = "L85" /\ pc'[t] # "L85") =>
        IF Val(key[t]) \in DOMAIN _cache THEN pc'[t] = "L86" ELSE pc'[t] = "L89"

\* The hit path ends the request at once: flagged HIT, with the entry of
\* the key, nothing having been aggregated.
HitPathEnds(t) ==
    (pc[t] = "L86" /\ pc'[t] # "L86") =>
        /\ EndsFlagged(t, "HIT")
        /\ IsNone(stats_obj[t])
        /\ Val(lastDone').r.key = Some(KeyOf(Val(lastDone').r.args))
        /\ Val(lastDone').r.stats = Some(_cache[Val(key[t])])

\* A request flagged MISS went down the miss path to the end.
MissFromMissPath(t) == EndsFlagged(t, "MISS") => pc[t] = "L104"

(***************************************************************************)
(* C15: a request whose lookup finds its key stored is flagged HIT and     *)
(* aggregates nothing; a request is flagged MISS only when its lookup      *)
(* came before the first store under its key.  (The cache never loses a    *)
(* key, C4, so stored before the lookup is in the cache at the lookup.)    *)
(***************************************************************************)
C15_HitAfterStore ==
    /\ [][\A t \in Threads : LookupDecides(t) /\ HitPathEnds(t) /\ MissFromMissPath(t)]_vars
    /\ [](\A t \in Threads : InLookup(t) => IsNone(stats_obj[t]))

\* Two requests with one key in flight together: the first has stored and
\* not yet returned, the second looked up after the store and was a HIT.
C15_Witness ==
    /\ HasLast
    /\ Last.xcache = "HIT"
    /\ \E u \in Threads : pc[u] = "L104" /\ key[u] = Last.key

\* Thread t takes a step from position p.
StepsFrom(t, p) == pc[t] = p /\ pc'[t] # p

\* The step of the hit path returns, with cache and dataset as they were
\* and no aggregate held.
HitTerminates(t) ==
    StepsFrom(t, "L86") =>
        /\ EndsFlagged(t, "HIT")
        /\ _cache' = _cache
        /\ _df' = _df
        /\ IsNone(stats_obj[t]) /\ IsNone(stats_obj'[t])

\* The miss path in order: compute (line 99), then the lock (line 101),
\* then the one store (line 102), then the return flagged MISS (line 104).
MissPathOrder(t) ==
    /\ (pc'[t] = "L101" /\ pc[t] # "L101") =>
          (pc[t] = "L89" /\ IsNone(stats_obj[t]) /\ ~IsNone(stats_obj'[t]))
    /\ (pc'[t] = "L102" /\ pc[t] # "L102") => pc[t] = "L101"
    /\ (pc'[t] = "L104" /\ pc[t] # "L104") => pc[t] = "L102"
    /\ StepsFrom(t, "L102") =>
          /\ pc'[t] = "L104"
          /\ ~IsNone(stats_obj[t])
          /\ Val(key[t]) \in DOMAIN _cache'
          /\ _cache'[Val(key[t])] = Val(stats_obj[t])
    /\ StepsFrom(t, "L104") => EndsFlagged(t, "MISS")
    /\ EndsFlagged(t, "MISS") => pc[t] = "L104"

\* No step but the store of line 102 touches the cache.
OnlyStoreWrites ==
    (\A t \in Threads : ~StepsFrom(t, "L102")) => _cache' = _cache

(***************************************************************************)
(* C16: a request on the hit path returns at the lookup, flagged HIT,      *)
(* having aggregated and stored nothing, with the cache and the dataset    *)
(* as they were; the store is a step of the miss path only, taken once by  *)
(* each request flagged MISS, after its compute step.                      *)
(***************************************************************************)
C16_HitTerminates ==
    [][/\ \A t \in Threads : HitTerminates(t) /\ MissPathOrder(t)
       /\ OnlyStoreWrites]_vars

\* A MISS, then the same key again alone: a HIT, and the cache still holds
\* the one entry.
C16_Witness ==
    /\ HasBefore
    /\ LastBefore.xcache = "MISS"
    /\ Last.xcache = "HIT"
    /\ LastBefore.key = Last.key
    /\ Cardinality(DOMAIN _cache) = 1

\* Filtering and aggregating (lines 89-99), or done with it and about to
\* ask for the lock again (line 101).
Computing(t) == pc[t] = "L89"
BetweenSections(t) == pc[t] \in {"L89", "L101"}

\* The lookup section ends before the compute step, which runs without the
\* lock and leaves it alone; the store section begins by taking the lock
\* anew.
TwoSections(t) ==
    /\ (StepsFrom(t, "L85") /\ pc'[t] = "L89") =>
          (_cache_lock = t /\ _cache_lock' = 0)
    /\ StepsFrom(t, "L89") => (_cache_lock # t /\ _cache_lock' = _cache_lock)
    /\ StepsFrom(t, "L101") => (_cache_lock = 0 /\ _cache_lock' = t)

(***************************************************************************)
(* C17: no request holds _cache_lock while it filters or aggregates: the   *)
(* lookup and the store of one request are two critical sections, the      *)
(* lock released in between.  (That two requests can be computing the      *)
(* result of one key at once is the reachable state C17_Witness.)          *)
(***************************************************************************)
C17_LockGuardsMapOnly ==
    /\ [](\A t \in Threads : BetweenSections(t) => _cache_lock # t)
    /\ [][\A t \in Threads : TwoSections(t)]_vars

\* Two requests are computing the result for the same key at once.
C17_Witness ==
    \E t, u \in Threads :
        /\ t # u
        /\ Computing(t) /\ Computing(u)
        /\ key[t] = key[u]

\* Some stats request takes a step.
RequestStep == \E t \in Threads : pc'[t] # pc[t]

\* Every aggregate a request holds is that of the dataset as it is now.
SameRows ==
    \A t \in Threads :
        ~IsNone(stats_obj[t]) =>
            (Loaded /\ stats_obj[t] = Some(Uncached(Val(_df), Val(args[t]))))

(***************************************************************************)
(* C18: no step of a stats request changes the dataset, and once loaded    *)
(* it is never changed, so every aggregate held by a request in flight is  *)
(* that of the one loaded dataset.                                         *)
(***************************************************************************)
C18_DatasetImmutable ==
    /\ [][(RequestStep \/ Loaded) => _df' = _df]_vars
    /\ []SameRows

\* Two requests in flight hold aggregates of different filters, computed
\* from the same rows.
C18_Witness ==
    \E t, u \in Threads :
        /\ ~IsNone(stats_obj[t]) /\ ~IsNone(stats_obj[u])
        /\ Val(stats_obj[t]).count > Val(stats_obj[u]).count
        /\ Val(stats_obj[u]).count > 0
====
